---------------------------- MODULE Spec2Model ----------------------------
(***************************************************************************)
(* Session / identity persistence of the Streamlit expense tracker         *)
(* (src/app.py): Redis-backed session tokens, the URL-parameter / cookie   *)
(* carriers driven by the two JS snippets, login / logout, and the part of *)
(* show_app that resolves the caller's identity on each script run.        *)
(*                                                                         *)
(* Execution model.  Every browser owns a visible URL (the session_token   *)
(* query parameter), a cookie jar (the session_token cookie) and one       *)
(* Streamlit session (st.session_state).  A full page load starts a new    *)
(* session from `defaults`; a widget interaction reruns show_app in the    *)
(* same session, after the widget's on_click callback.  st.query_params is *)
(* the query string of the browser's URL at the time of the run.  The JS   *)
(* emitted through st.components.v1.html runs on the client after the run, *)
(* as steps of their own (pending).                                        *)
(***************************************************************************)
EXTENDS Integers, Sequences, FiniteSets, TLC

VARIABLES
    users,      \* users_col: username -> the document find_one returns
    dupes,      \* users_col: documents inserted after one of their username
    store,      \* Redis: token -> [user, ttl, aged]   (key "session:<token>")
    expenses,   \* collection: set of [id, owner]
    url,        \* per browser: session_token in the visible URL, or None
    cookie,     \* per browser: [tok, before], tok = None when no
                \* session_token cookie; before: another cookie of the
                \* site comes first in document.cookie
    session,    \* per browser: st.session_state of the current session
    pending,    \* per browser: JS snippets emitted by the last run, not yet run
    issuedTo,   \* history: token -> username it was generated for
    dead,       \* history: tokens deleted from Redis or expired there
    sessTok,    \* history: token the browser's current session was established with
    logged,     \* audit entries appended to audit_col by the latest step
    calling,    \* per browser: Idle, Stopped, or the admin call its script is about to make
    last        \* descriptor of the latest step

vars == <<users, dupes, store, expenses, url, cookie, session, pending,
          issuedTo, dead, sessTok, logged, calling, last>>

(***************************************************************************)
(* Bounds and program constants                                            *)
(***************************************************************************)
MaxTokens == 2
MaxExpenses == 1
TickSeconds == 7200

TtlSeconds == 14400

None == "None"
TokenName == <<"t1", "t2", "t3", "t4", "t5">>
Tokens == {TokenName[i] : i \in 1..MaxTokens}
Browsers == {"b1", "b2"}

\* the admin username of st.secrets: the bootstrap admin
BootstrapAdmin == "root"

\* the admin password of st.secrets
BootstrapPassword == "pr"

\* now_utc() at the time the stored records were made, and at a later request
BootTime == "boot"
now_utc == "now"

InitialUsers ==
    [u \in {"alice", "root"} |->
        IF u = "alice"
        THEN [password_hash |-> <<"sha256", "pa">>, role |-> "user",
              created_at |-> BootTime]
        ELSE [password_hash |-> <<"sha256", "pr">>, role |-> "admin",
              created_at |-> BootTime]]

\* what can be typed into the login form
LoginUserInputs == {"alice", " alice ", "root", "bob", "ghost", ""}
LoginPwdInputs == {"pa", "pr", ""}

\* what can be typed into the admin forms
CreateUserInputs == {"bob", " alice ", ""}
AdminPwdInputs == {"pr", ""}
Roles == {"user", "admin"}

defaults ==
    [authenticated |-> FALSE, username |-> None, is_admin |-> FALSE,
     login_error |-> None]

NoCookie == [tok |-> None, before |-> FALSE]

\* outcomes of a request's Redis calls: FALSE when they raise
RedisUp == BOOLEAN

\* outcomes of redis_client.ping() at the top of a script run: FALSE when it
\* raises
PingOutcomes == BOOLEAN

(***************************************************************************)
(* Helpers                                                                 *)
(***************************************************************************)
hash_password(p) == <<"sha256", p>>

\* str.strip() on the inputs of the model
Strip(s) == IF s = " alice " THEN "alice" ELSE s

AuditRec(action, actor, target) ==
    [action |-> action, actor |-> actor, target |-> target]

\* mutant: a failing insert propagates out of log_action
log_action_propagates(auditUp) == ~auditUp

\* whether log_action raises when the insert fails: except Exception: pass
log_action_raises(auditUp) == FALSE

\* log_action: appends one record; swallows a failing insert
log_action(action, actor, target, auditUp) ==
    IF auditUp THEN <<AuditRec(action, actor, target)>> ELSE <<>>

(***************************************************************************)
(* Redis.  An entry holds the bound username and the remaining time to     *)
(* live: ttl seconds, less a moment when aged (set in an earlier request   *)
(* than the current one: wall-clock time has passed since).                *)
(***************************************************************************)
Remaining(e) == 2 * e.ttl - (IF e.aged THEN 1 ELSE 0)

\* the store as a later request finds it
Aged(s) == [k \in DOMAIN s |-> [s[k] EXCEPT !.aged = TRUE]]

\* keys whose time to live runs out when d more seconds pass
Expiring(s, d) == {k \in DOMAIN s : s[k].ttl - d <= 0}

\* the store after d seconds: Redis drops the keys whose TTL has elapsed
Elapse(s, d) ==
    [k \in DOMAIN s \ Expiring(s, d) |-> [s[k] EXCEPT !.ttl = s[k].ttl - d]]

\* SETEX key ttl value
RedisSetex(s, t, ttl, u) ==
    [k \in DOMAIN s \cup {t} |->
        IF k = t THEN [user |-> u, ttl |-> ttl, aged |-> FALSE] ELSE s[k]]

\* mutant: GET that does not look at the token in the key
RedisGetAnyKey(s, t) ==
    IF DOMAIN s = {} THEN None ELSE s[CHOOSE k \in DOMAIN s : TRUE].user

\* GET key
RedisGet(s, t) == IF t \in DOMAIN s THEN s[t].user ELSE None

\* mutant: DEL that removes every key bound to the key's username
RedisDelUserKeys(s, t) ==
    IF t \in DOMAIN s
    THEN [k \in {j \in DOMAIN s : s[j].user # s[t].user} |-> s[k]]
    ELSE s

\* mutant: DEL that leaves the key in place
RedisDelKeepsKey(s, t) == s

\* DEL key: the store without the key
RedisDel(s, t) == [k \in DOMAIN s \ {t} |-> s[k]]

\* mutant: a refresh written as SETEX, which creates the key
RedisExpireCreatesKey(s, t, ttl) ==
    RedisSetex(s, t, ttl, IF t \in DOMAIN s THEN s[t].user ELSE "alice")

\* EXPIRE key ttl: touches only a key that exists
RedisExpire(s, t, ttl) ==
    IF t \in DOMAIN s
    THEN [s EXCEPT ![t] = [user |-> s[t].user, ttl |-> ttl, aged |-> FALSE]]
    ELSE s

\* uuid.uuid4().hex: a token no earlier call has returned
generate_token(iss) == CHOOSE t \in Tokens \ DOMAIN iss : TRUE

\* up: Redis answers this request (otherwise the call raises and is caught)
store_token_in_redis(s, t, u, ttl, up) ==
    IF up THEN [ret |-> TRUE, store |-> RedisSetex(s, t, ttl, u)]
          ELSE [ret |-> FALSE, store |-> s]

get_username_from_token(s, t, up) == IF up THEN RedisGet(s, t) ELSE None

delete_token(s, t, up) ==
    IF up THEN [ret |-> t \in DOMAIN s, store |-> RedisDel(s, t)]
          ELSE [ret |-> FALSE, store |-> s]

\* mutant: a refresh that sets no new TTL
refresh_token_ttl_unchanged(s, t, ttl, up) ==
    [ret |-> up /\ t \in DOMAIN s, store |-> s]

refresh_token_ttl(s, t, ttl, up) ==
    IF up THEN [ret |-> t \in DOMAIN s, store |-> RedisExpire(s, t, ttl)]
          ELSE [ret |-> FALSE, store |-> s]

(***************************************************************************)
(* Client side: the two JS snippets and the script logout() emits          *)
(***************************************************************************)
\* readCookie('session_token') of COOKIE_READER_HTML.  The script the page
\* gets holds '(^|;)\s*' in a JavaScript string, where \s is the letter s:
\* the pattern is (^|;)s*session_tokens*=s*([^;]+), which matches the name
\* only at the start of document.cookie or right after a ';'.  Browsers join
\* cookies with '; ', so the cookie is found only when it comes first (a
\* token is hexadecimal, so s* takes nothing from it)
readCookie(c) ==
    IF c.tok # None /\ ~c.before THEN c.tok ELSE None

\* COOKIE_READER_HTML: the URL to navigate to, or None when it does nothing
CookieReaderJs(u, c) ==
    IF u # None THEN None ELSE readCookie(c)

\* mutant: a setter that writes the cookie and leaves the URL as it is
CookieSetterJsKeepsUrl(u, c) ==
    IF u = None THEN [cookie |-> c, url |-> u]
    ELSE [cookie |-> [c EXCEPT !.tok = u], url |-> u]

\* COOKIE_SETTER_HTML: writes the cookie and strips the token from the URL.
\* A cookie set anew comes after those the jar holds, one set again keeps
\* its place
CookieSetterJs(u, c) ==
    IF u = None THEN [cookie |-> c, url |-> u]
    ELSE [cookie |-> [c EXCEPT !.tok = u], url |-> None]

(***************************************************************************)
(* Authentication                                                          *)
(***************************************************************************)
\* create_redis_session_and_set_url: token is None when the write failed;
\* query is the session_token set into st.query_params (None: left alone)
create_redis_session_and_set_url(s, iss, username, up) ==
    LET token == generate_token(iss)
        w == store_token_in_redis(s, token, username, TtlSeconds, up)
    IN IF w.ret
       THEN [token |-> token, query |-> token, store |-> w.store,
             issuedTo |-> [k \in DOMAIN iss \cup {token} |->
                              IF k = token THEN username ELSE iss[k]]]
       ELSE [token |-> None, query |-> None, store |-> s, issuedTo |-> iss]

\* mutant: a restore that grants admin when the username has no record
restore_session_grants_without_record(sess, q, s, us, up, auditUp) ==
    IF q # None /\ ~sess.authenticated
    THEN LET username == get_username_from_token(s, q, up)
         IN IF username # None
            THEN [session |-> [sess EXCEPT
                        !.authenticated = TRUE,
                        !.username = username,
                        !.is_admin = IF username \in DOMAIN us
                                     THEN us[username].role = "admin"
                                     ELSE TRUE],
                  logged |-> log_action("session_restored", username, None, auditUp),
                  restored |-> TRUE]
            ELSE [session |-> sess, logged |-> <<>>, restored |-> FALSE]
    ELSE [session |-> sess, logged |-> <<>>, restored |-> FALSE]

\* restore_session_from_url_token, q = read_token_from_query()
restore_session_from_url_token(sess, q, s, us, up, auditUp) ==
    IF q # None /\ ~sess.authenticated
    THEN LET username == get_username_from_token(s, q, up)
         IN IF username # None
            THEN [session |-> [sess EXCEPT
                        !.authenticated = TRUE,
                        !.username = username,
                        !.is_admin = IF username \in DOMAIN us
                                     THEN us[username].role = "admin"
                                     ELSE FALSE],
                  logged |-> log_action("session_restored", username, None, auditUp),
                  restored |-> TRUE]
            ELSE [session |-> sess, logged |-> <<>>, restored |-> FALSE]
    ELSE [session |-> sess, logged |-> <<>>, restored |-> FALSE]

\* the snippets show_app hands to the client: sess is the session state when
\* show_app starts, q the token in the query
ShowAppScripts(sess, q) ==
    IF ~sess.authenticated /\ q = None THEN <<"reader">>
    ELSE IF q # None THEN <<"setter">>
    ELSE <<>>

\* show_app down to the login gate
show_app(sess, q, s, us, up, auditUp) ==
    LET r == restore_session_from_url_token(sess, q, s, us, up, auditUp)
    IN [session |-> r.session, logged |-> r.logged, restored |-> r.restored,
        scripts |-> ShowAppScripts(sess, q)]

\* a script run: the connection check, then the body.  When the ping raises
\* the run shows st.error and ends at st.stop(): show_app is not reached, no
\* session is restored and no snippet is emitted
script_run(ping, sess, q, s, us, up, auditUp) ==
    IF ping
    THEN show_app(sess, q, s, us, up, auditUp)
    ELSE [session |-> sess, logged |-> <<>>, restored |-> FALSE,
          scripts |-> <<>>]

\* mutant: a message of its own for an unknown username
UnknownUserErrorLeaks == "Unknown username."

UnknownUserError == "Invalid username or password."
WrongPasswordError == "Invalid username or password."
MissingInputError == "Provide both username and password."

\* login(): the on_click callback of the Login button
login(sess, s, iss, us, rawUser, pwd, up, auditUp) ==
    LET user == Strip(rawUser)
        same == [session |-> sess, store |-> s, issuedTo |-> iss,
                 query |-> None, token |-> None, logged |-> <<>>, res |-> "invalid"]
    IN IF user = "" \/ pwd = ""
       THEN [same EXCEPT !.session = [sess EXCEPT !.login_error = MissingInputError],
                         !.res = "empty"]
       ELSE IF user \notin DOMAIN us
       THEN [same EXCEPT !.session = [sess EXCEPT !.login_error = UnknownUserError]]
       ELSE IF us[user].password_hash = hash_password(pwd)
       THEN LET c == create_redis_session_and_set_url(s, iss, user, up)
            IN [session |-> [authenticated |-> TRUE, username |-> user,
                             is_admin |-> (us[user].role = "admin"),
                             login_error |-> None],
                store |-> c.store, issuedTo |-> c.issuedTo,
                query |-> c.query, token |-> c.token,
                logged |-> log_action("login", user, None, auditUp),
                res |-> IF c.token # None THEN "ok" ELSE "nostore"]
       ELSE [same EXCEPT !.session = [sess EXCEPT !.login_error = WrongPasswordError]]

\* clear_url_token_and_redis, q = read_token_from_query()
clear_url_token_and_redis(s, q, up) ==
    IF q # None
    THEN LET d == delete_token(s, q, up)
         IN [store |-> d.store, ret |-> d.ret, called |-> TRUE]
    ELSE [store |-> s, ret |-> FALSE, called |-> FALSE]

\* mutant: a logout that keeps the session when the Redis delete fails
logout_unless_delete_fails(sess, s, q, up, auditUp) ==
    LET c == clear_url_token_and_redis(s, q, up)
    IN [session |-> IF c.called /\ ~up THEN sess
                    ELSE [authenticated |-> FALSE, username |-> None,
                          is_admin |-> FALSE, login_error |-> None],
        store |-> c.store, ret |-> c.ret, called |-> c.called,
        logged |-> log_action("logout", sess.username, None, auditUp),
        scripts |-> <<"logout">>]

\* logout(): the on_click callback of the Logout button.  log_action is its
\* first call: were it to raise, nothing after it would run.
logout(sess, s, q, up, auditUp) ==
    IF log_action_raises(auditUp)
    THEN [session |-> sess, store |-> s, ret |-> FALSE, called |-> FALSE,
          logged |-> <<>>, scripts |-> <<>>]
    ELSE
    LET c == clear_url_token_and_redis(s, q, up)
    IN [session |-> [authenticated |-> FALSE, username |-> None,
                     is_admin |-> FALSE, login_error |-> None],
        store |-> c.store, ret |-> c.ret, called |-> c.called,
        logged |-> log_action("logout", sess.username, None, auditUp),
        scripts |-> <<"logout">>]

(***************************************************************************)
(* Admin operations.  Each returns the stores after it, the messages it    *)
(* shows (st.error, st.warning, st.info, st.success) and the audit entries *)
(* it appends.                                                             *)
(***************************************************************************)
Msg(kind, text, n) == [kind |-> kind, text |-> text, n |-> n]

\* the message after log_action: not reached were log_action to raise
AfterLog(auditUp, m) == IF log_action_raises(auditUp) THEN <<>> ELSE <<m>>

\* the records of a collection without those of key k
Without(us, k) == [u \in DOMAIN us \ {k} |-> us[u]]

\* mutant: create_user that writes the record whether or not one exists
create_user_upsert(us, actor, username, password, role, auditUp) ==
    LET name == Strip(username)
    IN IF name = "" \/ password = ""
       THEN [users |-> us, logged |-> <<>>,
             msgs |-> <<Msg("error", "Provide username and password.", 0)>>]
       ELSE [users |-> [u \in DOMAIN us \cup {name} |->
                          IF u = name
                          THEN [password_hash |-> hash_password(password),
                                role |-> role, created_at |-> now_utc]
                          ELSE us[u]],
             logged |-> log_action("create_user", actor, name, auditUp),
             msgs |-> AfterLog(auditUp, Msg("success", "User created.", 0))]

create_user(us, actor, username, password, role, auditUp) ==
    LET name == Strip(username)
    IN IF name = "" \/ password = ""
       THEN [users |-> us, logged |-> <<>>,
             msgs |-> <<Msg("error", "Provide username and password.", 0)>>]
       ELSE IF name \in DOMAIN us
       THEN [users |-> us, logged |-> <<>>,
             msgs |-> <<Msg("error", "User already exists.", 0)>>]
       ELSE [users |-> [u \in DOMAIN us \cup {name} |->
                          IF u = name
                          THEN [password_hash |-> hash_password(password),
                                role |-> role, created_at |-> now_utc]
                          ELSE us[u]],
             logged |-> log_action("create_user", actor, name, auditUp),
             msgs |-> AfterLog(auditUp, Msg("success", "User created.", 0))]

\* users_col.find_one({"username": name}) returns a document
users_col_find_one(us, name) == name \in DOMAIN us

\* users_col.insert_one(doc): the code creates no index on users_col, so the
\* insert succeeds whether or not a document of that username is there; a
\* document inserted after another of its username does not change what
\* find_one returns
users_col_insert_one(us, dp, name, password, role) ==
    IF users_col_find_one(us, name)
    THEN [users |-> us,
          dupes |-> Append(dp, [username |-> name,
                                password_hash |-> hash_password(password),
                                role |-> role, created_at |-> now_utc])]
    ELSE [users |-> [u \in DOMAIN us \cup {name} |->
                       IF u = name
                       THEN [password_hash |-> hash_password(password),
                             role |-> role, created_at |-> now_utc]
                       ELSE us[u]],
          dupes |-> dp]

\* create_user down to its insert: TRUE when both checks pass
create_user_will_insert(us, username, password) ==
    /\ Strip(username) # ""
    /\ password # ""
    /\ ~users_col_find_one(us, Strip(username))

\* ensure_superadmin down to its insert, with the admin of st.secrets
ensure_superadmin_will_insert(us) == ~users_col_find_one(us, BootstrapAdmin)

\* the number of users_col documents with this username
RecordsOf(us, dp, name) ==
    (IF name \in DOMAIN us THEN 1 ELSE 0)
    + Cardinality({i \in DOMAIN dp : dp[i].username = name})


reset_user_password(us, actor, target, new_password, auditUp) ==
    IF target = "" \/ new_password = ""
    THEN [users |-> us, logged |-> <<>>,
          msgs |-> <<Msg("error", "Provide target user and new password.", 0)>>]
    ELSE IF target \notin DOMAIN us
    THEN [users |-> us, logged |-> <<>>,
          msgs |-> <<Msg("warning", "No user record found.", 0)>>]
    ELSE [users |-> [us EXCEPT
                       ![target].password_hash = hash_password(new_password)],
          logged |-> log_action("reset_password", actor, target, auditUp),
          msgs |-> AfterLog(auditUp, Msg("success", "Password has been reset.", 0))]

\* collection.delete_many({"owner": target})
OwnedBy(ex, target) == {e \in ex : e.owner = target}

\* TRACING_AVAILABLE and tracer, as the tracing initialisation of the script
\* run left them: TRUE when the Jaeger collector was reachable
TracingOutcomes == BOOLEAN

\* delete_user down to users_col.delete_one.  With tracing on it calls
\* set_attribute on the context manager start_as_current_span returned, which
\* has no such attribute: AttributeError before any store call
delete_user_delete_one(us, target, tracing) ==
    IF target = ""
    THEN [users |-> us, found |-> FALSE, raised |-> FALSE, returned |-> TRUE]
    ELSE IF tracing
    THEN [users |-> us, found |-> FALSE, raised |-> TRUE, returned |-> FALSE]
    ELSE [users |-> IF target \in DOMAIN us THEN Without(us, target) ELSE us,
          found |-> target \in DOMAIN us, raised |-> FALSE,
          returned |-> FALSE]

\* delete_user after delete_one: delete_many when asked to, the messages and
\* the audit entry; found is delete_one's deleted_count > 0
delete_user_cascade(ex, actor, target, delete_expenses, found, auditUp) ==
    LET gone == IF delete_expenses THEN OwnedBy(ex, target) ELSE {}
        n == Cardinality(gone)
    IN IF ~found
       THEN [expenses |-> ex \ gone, n |-> n,
             msgs |-> <<Msg("warning", "No user record found.", 0)>> \o
                      (IF n > 0
                       THEN <<Msg("info", "User not found, but expenses were deleted.", n)>>
                       ELSE <<>>),
             logged |-> IF n > 0
                        THEN log_action("delete_user_expenses_only", actor,
                                        target, auditUp)
                        ELSE <<>>]
       ELSE [expenses |-> ex \ gone, n |-> n,
             msgs |-> IF delete_expenses /\ n = 0
                      THEN <<Msg("info", "User deleted, but no expenses were found.", 0)>>
                      ELSE IF n > 0
                      THEN <<Msg("success", "User and expenses deleted.", n)>>
                      ELSE <<Msg("success", "User deleted.", 0)>>,
             logged |-> log_action("delete_user", actor, target, auditUp)]

\* delete_user run with no other call between its store calls
delete_user(us, ex, actor, target, delete_expenses, auditUp, tracing) ==
    LET d == delete_user_delete_one(us, target, tracing)
        c == delete_user_cascade(ex, actor, target, delete_expenses, d.found,
                                 auditUp)
    IN IF d.returned
       THEN [users |-> us, expenses |-> ex, logged |-> <<>>, found |-> FALSE,
             n |-> 0, raised |-> FALSE,
             msgs |-> <<Msg("error", "Select a user to delete.", 0)>>]
       ELSE IF d.raised
       THEN [users |-> us, expenses |-> ex, logged |-> <<>>, found |-> FALSE,
             n |-> 0, raised |-> TRUE, msgs |-> <<>>]
       ELSE [users |-> d.users, expenses |-> c.expenses, logged |-> c.logged,
             found |-> d.found, n |-> c.n, raised |-> FALSE, msgs |-> c.msgs]

\* the Delete All Expenses button, confirmed
delete_all_expenses(ex, actor, auditUp) ==
    LET n == Cardinality(ex)
    IN IF n = 0
       THEN [expenses |-> {}, n |-> 0, logged |-> <<>>,
             msgs |-> <<Msg("info", "No expense records found to delete.", 0)>>]
       ELSE [expenses |-> {}, n |-> n,
             logged |-> log_action("delete_all_expenses", actor, None, auditUp),
             msgs |-> AfterLog(auditUp, Msg("warning", "expense(s) deleted.", n))]

\* collection.delete_one({"_id": did}) of the Delete Selected loop
collection_delete_one(ex, did) ==
    [expenses |-> {e \in ex : e.id # did},
     deleted_count |-> Cardinality({e \in ex : e.id = did})]

\* Delete Selected after its loop: the audit entry and the message
delete_selected_report(actor, deleted_ids, not_found, auditUp) ==
    [logged |-> IF deleted_ids # {}
                THEN log_action("delete_selected_expenses", actor, None, auditUp)
                ELSE <<>>,
     msgs |-> IF deleted_ids # {} /\ log_action_raises(auditUp) THEN <<>>
              ELSE IF not_found # {} /\ deleted_ids # {}
              THEN <<Msg("warning", "Some IDs were not found.",
                         Cardinality(deleted_ids))>>
              ELSE IF not_found # {}
              THEN <<Msg("info", "No records found for selected IDs.", 0)>>
              ELSE <<Msg("success", "Selected expenses deleted.",
                         Cardinality(deleted_ids))>>]

\* the Delete Selected Expenses button, confirmed, run with no other call
\* between its store calls: ids are those ticked
delete_selected_expenses(ex, actor, ids, auditUp) ==
    LET deleted_ids == {i \in ids : collection_delete_one(ex, i).deleted_count > 0}
        not_found == ids \ deleted_ids
        r == delete_selected_report(actor, deleted_ids, not_found, auditUp)
    IN [expenses |-> {e \in ex : e.id \notin ids},
        deleted_ids |-> deleted_ids, not_found |-> not_found,
        logged |-> r.logged, msgs |-> r.msgs]

\* mutant: admin controls shown to every authenticated session
AdminGateAuthenticated(sess) == sess.authenticated

\* if st.session_state.get("is_admin"): the admin controls are rendered
AdminGate(sess) == sess.is_admin

\* mutant: a Delete User list that offers the admin's own record
users_list_del_with_self(us, self) ==
    {u \in DOMAIN us : u # BootstrapAdmin}

\* the options of the Delete User select box
users_list_del(us, self) ==
    {u \in DOMAIN us : u # self /\ u # BootstrapAdmin}

\* the options of the Reset Password select box
users_list_reset(us, self) == {u \in DOMAIN us : u # self}

(***************************************************************************)
(* State machine                                                           *)
(***************************************************************************)
NoPre == [rem |-> 0, user |-> None]

Step(op, b, q, via, tok, up, res, pre) ==
    [op |-> op, b |-> b, q |-> q, via |-> via, tok |-> tok, up |-> up,
     res |-> res, pre |-> pre, audit |-> TRUE, stopped |-> FALSE]

\* the browser shows the app's widgets and no admin call is under way
Idle == [op |-> None]

\* the browser's last script run ended at st.stop(): the page shows the
\* connection error and none of the app's widgets
Stopped == [op |-> "stopped"]

\* where the run leaves the page
AfterRun(b, ping) == [calling EXCEPT ![b] = IF ping THEN Idle ELSE Stopped]

EmptyStore == [k \in {} |-> None]

\* the outcomes of the request's Redis calls: they succeed, or they raise and
\* the wrapper returns its failure value; one outcome when none is made
RedisOutcomes(called) == IF called THEN RedisUp ELSE {TRUE}

Init ==
    /\ users = InitialUsers
    /\ dupes = <<>>
    /\ store = EmptyStore
    /\ expenses = {}
    /\ url = [b \in Browsers |-> None]
    /\ cookie = [b \in Browsers |-> NoCookie]
    /\ session = [b \in Browsers |-> defaults]
    /\ pending = [b \in Browsers |-> <<>>]
    /\ issuedTo = EmptyStore
    /\ dead = {}
    /\ sessTok = [b \in Browsers |-> None]
    /\ logged = <<>>
    /\ calling = [b \in Browsers |-> Idle]
    /\ last = Step("init", None, None, None, None, TRUE, None, NoPre)

\* A full page load of browser b at a URL carrying u: a new Streamlit session
\* (st.session_state from defaults) runs show_app.
PageLoad(b, u, via, up, auditUp) ==
    \E ping \in PingOutcomes :
    \E s0 \in {Aged(store)} :
    \E v \in {script_run(ping, defaults, u, s0, users, up, auditUp)} :
       /\ store' = s0
       /\ url' = [url EXCEPT ![b] = u]
       /\ session' = [session EXCEPT ![b] = v.session]
       /\ pending' = [pending EXCEPT ![b] = v.scripts]
       /\ sessTok' = [sessTok EXCEPT ![b] = IF v.restored THEN u ELSE None]
       /\ logged' = v.logged
       /\ last' = [Step("load", b, u, via, None, ping /\ (up \/ u = None),
                        IF ~ping THEN "stopped"
                        ELSE IF v.restored THEN "restored" ELSE "anonymous",
                        NoPre)
                       EXCEPT !.stopped = ~ping]
       /\ calling' = AfterRun(b, ping)
       /\ UNCHANGED <<dupes, users, expenses, cookie, issuedTo, dead>>

\* the user opens or reloads the page, with or without a token in the URL
Navigate(b, A) ==
    \E u \in DOMAIN issuedTo \cup {None} :
        \E up \in RedisOutcomes(u # None), auditUp \in A :
            PageLoad(b, u, "user", up, auditUp)

\* a widget interaction without a callback of interest: show_app reruns
Rerun(b, A) ==
    /\ calling[b] = Idle
    /\ \E up \in RedisOutcomes(~session[b].authenticated /\ url[b] # None),
       auditUp \in A, ping \in PingOutcomes :
        \E s0 \in {Aged(store)}, q \in {url[b]} :
        \E v \in {script_run(ping, session[b], q, s0, users, up, auditUp)} :
           /\ store' = s0
           /\ session' = [session EXCEPT ![b] = v.session]
           /\ pending' = [pending EXCEPT ![b] = v.scripts]
           /\ sessTok' = [sessTok EXCEPT ![b] = IF v.restored THEN q ELSE @]
           /\ logged' = v.logged
           /\ last' = [Step("rerun", b, q, None, None,
                            ping /\ (up \/ ~v.restored),
                            IF ~ping THEN "stopped"
                            ELSE IF v.restored THEN "restored" ELSE "same",
                            NoPre)
                           EXCEPT !.stopped = ~ping]
           /\ calling' = AfterRun(b, ping)
           /\ UNCHANGED <<dupes, users, expenses, url, cookie, issuedTo, dead>>

\* the Login button: login() runs, then show_app
Login(b, A) ==
    /\ calling[b] = Idle
    /\ ~session[b].authenticated
    /\ Cardinality(DOMAIN issuedTo) < MaxTokens
    /\ \E rawUser \in LoginUserInputs, pwd \in LoginPwdInputs, auditUp \in A,
          ping \in PingOutcomes :
       \E up \in RedisOutcomes(
                 \/ url[b] # None
                 \/ login(session[b], store, issuedTo, users, rawUser, pwd,
                          TRUE, auditUp).res = "ok") :
        \E r \in {login(session[b], Aged(store), issuedTo, users, rawUser, pwd,
                         up, auditUp)} :
        \E q \in {IF r.query # None THEN r.query ELSE url[b]} :
        \E v \in {script_run(ping, r.session, q, r.store, users, up, auditUp)} :
        \E passed \in {r.res \in {"ok", "nostore"}} :
           /\ store' = r.store
           /\ issuedTo' = r.issuedTo
           /\ url' = [url EXCEPT ![b] = q]
           /\ session' = [session EXCEPT ![b] = v.session]
           /\ pending' = [pending EXCEPT ![b] = v.scripts]
           /\ sessTok' = [sessTok EXCEPT ![b] =
                            IF passed THEN r.token
                            ELSE IF v.restored THEN q ELSE @]
           /\ logged' = r.logged \o v.logged
           /\ last' = [Step("login", b, q, None, r.token,
                            ping /\ (up \/ ~(passed \/ v.restored)), r.res,
                            NoPre)
                           EXCEPT !.audit = auditUp, !.stopped = ~ping]
           /\ calling' = AfterRun(b, ping)
           /\ UNCHANGED <<dupes, users, expenses, cookie, dead>>

\* the Logout button: logout() runs, then show_app
Logout(b, A) ==
    /\ calling[b] = Idle
    /\ session[b].authenticated
    /\ \E up \in RedisOutcomes(url[b] # None), auditUp \in A,
          ping \in PingOutcomes :
        \E q \in {url[b]} :
        \E r \in {logout(session[b], Aged(store), q, up, auditUp)} :
        \E v \in {script_run(ping, r.session, None, r.store, users, up,
                               auditUp)} :
           /\ store' = r.store
           /\ dead' = IF r.called /\ up THEN dead \cup {q} ELSE dead
           /\ url' = [url EXCEPT ![b] = None]
           /\ session' = [session EXCEPT ![b] = v.session]
           /\ pending' = [pending EXCEPT ![b] = r.scripts \o v.scripts]
           /\ sessTok' = [sessTok EXCEPT ![b] = None]
           /\ logged' = r.logged \o v.logged
           /\ last' = [Step("logout", b, q, None, sessTok[b],
                            ping /\ (up \/ ~r.called),
                            IF ~r.called THEN "notoken"
                            ELSE IF r.ret THEN "deleted"
                            ELSE IF up THEN "absent" ELSE "failed", NoPre)
                           EXCEPT !.audit = auditUp, !.stopped = ~ping]
           /\ calling' = AfterRun(b, ping)
           /\ UNCHANGED <<dupes, users, expenses, cookie, issuedTo>>

\* a script run of browser b that ends at st.stop() before the handler of the
\* widget that started it: the ping raised
RunStopped(b, op) ==
    /\ store' = Aged(store)
    /\ pending' = [pending EXCEPT ![b] = <<>>]
    /\ logged' = <<>>
    /\ last' = [Step(op, b, url[b], None, None, FALSE, "stopped", NoPre)
                    EXCEPT !.stopped = TRUE]
    /\ calling' = AfterRun(b, FALSE)
    /\ UNCHANGED <<users, dupes, expenses, url, cookie, session, issuedTo,
                   dead, sessTok>>

NewExpenseId(ex) == CHOOSE i \in 1..MaxExpenses : \A e \in ex : e.id # i

\* the expense form's Save Expense button: show_app reruns and saves
SaveExpense(b, A) ==
    /\ calling[b] = Idle
    /\ session[b].authenticated
    /\ Cardinality(expenses) < MaxExpenses
    /\ \/ RunStopped(b, "save")
       \/ \E up \in RedisOutcomes(url[b] # None), auditUp \in A :
           \E s0 \in {Aged(store)}, q \in {url[b]} :
           \E v \in {show_app(session[b], q, s0, users, up, auditUp)} :
           \E owner \in {v.session.username} :
           \E f \in {IF q # None THEN refresh_token_ttl(s0, q, TtlSeconds, up)
                      ELSE [ret |-> FALSE, store |-> s0]} :
              /\ expenses' = expenses \cup
                       {[id |-> NewExpenseId(expenses), owner |-> owner]}
              /\ store' = f.store
              /\ session' = [session EXCEPT ![b] = v.session]
              /\ pending' = [pending EXCEPT ![b] = v.scripts]
              /\ logged' = v.logged \o log_action("add_expense", owner, None, auditUp)
              /\ last' = Step("save", b, q, None, None, up \/ q = None,
                              IF q = None THEN "norefresh"
                              ELSE IF f.ret THEN "refreshed" ELSE "refreshfail",
                              IF q \in DOMAIN s0
                              THEN [rem |-> Remaining(s0[q]), user |-> s0[q].user]
                              ELSE NoPre)
              /\ UNCHANGED <<dupes, calling, users, url, cookie, issuedTo, dead, sessTok>>

\* the client runs COOKIE_SETTER_HTML
ClientSetter(b) ==
    /\ pending[b] # <<>> /\ Head(pending[b]) = "setter"
    /\ LET r == CookieSetterJs(url[b], cookie[b])
       IN /\ cookie' = [cookie EXCEPT ![b] = r.cookie]
          /\ url' = [url EXCEPT ![b] = r.url]
          /\ pending' = [pending EXCEPT ![b] = Tail(@)]
          /\ logged' = <<>>
          /\ last' = Step("setter", b, url[b], None, None, TRUE, None, NoPre)
          /\ UNCHANGED <<dupes, calling, users, store, expenses, session, issuedTo, dead, sessTok>>

\* the client runs COOKIE_READER_HTML and finds nothing to do
ClientReaderIdle(b) ==
    /\ pending[b] # <<>> /\ Head(pending[b]) = "reader"
    /\ CookieReaderJs(url[b], cookie[b]) = None
    /\ pending' = [pending EXCEPT ![b] = Tail(@)]
    /\ logged' = <<>>
    /\ last' = Step("reader", b, None, None, None, TRUE, "idle", NoPre)
    /\ UNCHANGED <<dupes, calling, users, store, expenses, url, cookie, session, issuedTo,
                   dead, sessTok>>

\* the client runs COOKIE_READER_HTML, which navigates to ?session_token=<cookie>
ClientReaderNavigate(b, A) ==
    /\ pending[b] # <<>> /\ Head(pending[b]) = "reader"
    /\ CookieReaderJs(url[b], cookie[b]) # None
    /\ \E up \in RedisUp, auditUp \in A :
        PageLoad(b, CookieReaderJs(url[b], cookie[b]), "reader", up, auditUp)

\* the client runs the script of logout(): clears the cookie, and arms the
\* timer that reloads the bare path
ClientLogoutJs(b) ==
    /\ pending[b] # <<>> /\ Head(pending[b]) = "logout"
    /\ cookie' = [cookie EXCEPT ![b].tok = None]
    /\ pending' = [pending EXCEPT ![b] = Tail(@) \o <<"reload">>]
    /\ logged' = <<>>
    /\ last' = Step("logoutjs", b, None, None, None, TRUE, None, NoPre)
    /\ UNCHANGED <<dupes, calling, users, store, expenses, url, session, issuedTo, dead, sessTok>>

\* the timer of logout()'s script fires: window.location.href = pathname
ClientReload(b, A) ==
    /\ pending[b] # <<>> /\ Head(pending[b]) = "reload"
    /\ \E auditUp \in A : PageLoad(b, None, "reload", TRUE, auditUp)

\* the site's page gets another cookie while it has no session_token
\* cookie: the one the setter writes later comes after it in document.cookie
OtherCookieSet(b) ==
    /\ cookie[b].tok = None /\ ~cookie[b].before
    /\ cookie' = [cookie EXCEPT ![b].before = TRUE]
    /\ logged' = <<>>
    /\ last' = Step("other_cookie_set", b, None, None, None, TRUE, None, NoPre)
    /\ UNCHANGED <<dupes, calling, users, store, expenses, url, session, pending, issuedTo,
                   dead, sessTok>>

\* the browser drops the other cookie: session_token, if set, comes first
OtherCookieDrop(b) ==
    /\ cookie[b].before
    /\ cookie' = [cookie EXCEPT ![b].before = FALSE]
    /\ logged' = <<>>
    /\ last' = Step("other_cookie_dropped", b, None, None, None, TRUE, None, NoPre)
    /\ UNCHANGED <<dupes, calling, users, store, expenses, url, session, pending, issuedTo,
                   dead, sessTok>>

\* the browser drops the cookie: its max-age has run out
CookieExpire(b) ==
    /\ cookie[b].tok # None
    /\ cookie' = [cookie EXCEPT ![b].tok = None]
    /\ logged' = <<>>
    /\ last' = Step("cookie_expired", b, None, None, None, TRUE, None, NoPre)
    /\ UNCHANGED <<dupes, calling, users, store, expenses, url, session, pending, issuedTo,
                   dead, sessTok>>

\* TickSeconds pass: Redis expires the keys whose TTL runs out
Tick ==
    /\ DOMAIN store # {}
    /\ store' = Elapse(store, TickSeconds)
    /\ dead' = dead \cup Expiring(store, TickSeconds)
    /\ logged' = <<>>
    /\ last' = Step("tick", None, None, None, None, TRUE, None, NoPre)
    /\ UNCHANGED <<dupes, calling, users, expenses, url, cookie, session, pending, issuedTo,
                   sessTok>>

\* B: the browsers in use; A: the outcomes of audit_col.insert_one (FALSE: it
\* raises)
NextOf(B, A) ==
    \/ \E b \in B : Navigate(b, A)
    \/ \E b \in B : Rerun(b, A)
    \/ \E b \in B : Login(b, A)
    \/ \E b \in B : Logout(b, A)
    \/ \E b \in B : SaveExpense(b, A)
    \/ \E b \in B : ClientSetter(b)
    \/ \E b \in B : ClientReaderIdle(b)
    \/ \E b \in B : ClientReaderNavigate(b, A)
    \/ \E b \in B : ClientLogoutJs(b)
    \/ \E b \in B : ClientReload(b, A)
    \/ \E b \in B : CookieExpire(b)
    \/ \E b \in B : OtherCookieSet(b)
    \/ \E b \in B : OtherCookieDrop(b)
    \/ Tick

\* one browser against the shared stores; Redis may fail any request
Next == NextOf({"b1"}, {TRUE})
Spec == Init /\ [][Next]_vars

\* two browsers against the shared stores
NextTwo == NextOf(Browsers, {TRUE})
SpecTwo == Init /\ [][NextTwo]_vars

\* two browsers that log in and out while time passes
NextPair ==
    \/ \E b \in Browsers : Login(b, {TRUE})
    \/ \E b \in Browsers : Logout(b, {TRUE})
    \/ Tick
SpecPair == Init /\ [][NextPair]_vars

(***************************************************************************)
(* Admin controls of show_app                                              *)
(***************************************************************************)
AdminStep(op, b, actor, target, arg, res, n, msgs, audit) ==
    [op |-> op, b |-> b, q |-> url[b], via |-> None, tok |-> None, up |-> TRUE,
     res |-> res, pre |-> NoPre, audit |-> audit, stopped |-> FALSE,
     actor |-> actor, target |-> target, arg |-> arg, n |-> n, msgs |-> msgs]

\* the expense records the collection may hold when the app starts
SeedExpenses ==
    {[id |-> 1, owner |-> "alice"], [id |-> 2, owner |-> "alice"],
     [id |-> 3, owner |-> "root"]}

InitAdmin ==
    /\ users = InitialUsers
    /\ dupes = <<>>
    /\ store = EmptyStore
    /\ expenses = SeedExpenses
    /\ url = [b \in Browsers |-> None]
    /\ cookie = [b \in Browsers |-> NoCookie]
    /\ session = [b \in Browsers |-> defaults]
    /\ pending = [b \in Browsers |-> <<>>]
    /\ issuedTo = EmptyStore
    /\ dead = {}
    /\ sessTok = [b \in Browsers |-> None]
    /\ logged = <<>>
    /\ calling = [b \in Browsers |-> Idle]
    /\ last = Step("init", None, None, None, None, TRUE, None, NoPre)

\* the part of a script run before the admin controls: an authenticated
\* session restores nothing, and show_app emits its snippets
AdminRun(b) ==
    /\ AdminGate(session[b])
    /\ calling[b] = Idle
    /\ store' = Aged(store)
    /\ pending' = [pending EXCEPT ![b] = ShowAppScripts(session[b], url[b])]

\* the Create User button
CreateUser(b, A) ==
    /\ AdminGate(session[b])
    /\ calling[b] = Idle
    /\ \/ RunStopped(b, "create_user")
       \/ /\ AdminRun(b)
          /\ \E username \in CreateUserInputs, password \in AdminPwdInputs,
                role \in Roles, auditUp \in A :
              LET actor == session[b].username
                  r == create_user(users, actor, username, password, role, auditUp)
              IN /\ users' = r.users
                 /\ logged' = r.logged
                 /\ last' = AdminStep("create_user", b, actor, Strip(username),
                                      password, None, 0, r.msgs, auditUp)
          /\ UNCHANGED <<dupes, expenses, url, cookie, session, issuedTo, dead, sessTok,
                         calling>>

\* the Reset Password button: the script has listed the users and is about
\* to call reset_user_password
ResetPasswordSelect(b) ==
    /\ AdminGate(session[b])
    /\ calling[b] = Idle
    /\ \/ RunStopped(b, "reset_password_select")
       \/ /\ AdminRun(b)
          /\ \E target \in users_list_reset(users, session[b].username),
                new_pass \in AdminPwdInputs :
              /\ calling' = [calling EXCEPT ![b] =
                    IF new_pass = ""
                    THEN [op |-> "reset_password_missing", target |-> target,
                          arg |-> new_pass]
                    ELSE [op |-> "reset_password", target |-> target,
                          arg |-> new_pass]]
              /\ last' = AdminStep("reset_password_select", b, session[b].username,
                                   target, new_pass, None, 0, <<>>, TRUE)
          /\ logged' = <<>>
          /\ UNCHANGED <<dupes, users, expenses, url, cookie, session, issuedTo, dead,
                         sessTok>>

\* st.error("Provide a new password."): reset_user_password is not called
ResetPasswordMissing(b) ==
    /\ calling[b].op = "reset_password_missing"
    /\ calling' = [calling EXCEPT ![b] = Idle]
    /\ logged' = <<>>
    /\ last' = AdminStep("reset_password_missing", b, session[b].username,
                         calling[b].target, calling[b].arg, None, 0,
                         <<Msg("error", "Provide a new password.", 0)>>, TRUE)
    /\ UNCHANGED <<dupes, users, store, expenses, url, cookie, session, pending,
                   issuedTo, dead, sessTok>>

\* reset_user_password(tgt_reset, new_pass)
ResetPasswordCall(b, A) ==
    /\ calling[b].op = "reset_password"
    /\ \E auditUp \in A :
        LET actor == session[b].username
            r == reset_user_password(users, actor, calling[b].target,
                                     calling[b].arg, auditUp)
        IN /\ users' = r.users
           /\ logged' = r.logged
           /\ last' = AdminStep("reset_password", b, actor, calling[b].target,
                                calling[b].arg, None, 0, r.msgs, auditUp)
    /\ calling' = [calling EXCEPT ![b] = Idle]
    /\ UNCHANGED <<dupes, store, expenses, url, cookie, session, pending, issuedTo,
                   dead, sessTok>>

\* the Delete User button, confirmed: the script has listed the users and is
\* about to call delete_user
DeleteUserSelect(b) ==
    /\ AdminGate(session[b])
    /\ calling[b] = Idle
    /\ \/ RunStopped(b, "delete_user_select")
       \/ /\ AdminRun(b)
          /\ \E target \in users_list_del(users, session[b].username),
                del_expenses_opt \in BOOLEAN :
              /\ calling' = [calling EXCEPT ![b] =
                    [op |-> "delete_user", target |-> target,
                     arg |-> del_expenses_opt]]
              /\ last' = AdminStep("delete_user_select", b, session[b].username,
                                   target, del_expenses_opt, None, 0, <<>>, TRUE)
          /\ logged' = <<>>
          /\ UNCHANGED <<dupes, users, expenses, url, cookie, session, issuedTo, dead,
                         sessTok>>

\* delete_user(tgt_del, delete_expenses=del_expenses_opt) down to delete_one:
\* the call raises and ends the script run, or it has made its delete_one
\* and is about to go on.  owned is history: the expenses the target owned
\* when the call started
DeleteUserDeleteOne(b) ==
    /\ calling[b].op = "delete_user"
    /\ \E tracing \in TracingOutcomes :
       \E actor \in {session[b].username} :
       \E r \in {delete_user_delete_one(users, calling[b].target, tracing)} :
          /\ users' = r.users
          /\ calling' = [calling EXCEPT ![b] =
                IF r.raised THEN Idle
                ELSE [op |-> "delete_user_cascade",
                      target |-> calling[b].target, arg |-> calling[b].arg,
                      found |-> r.found,
                      owned |-> Cardinality(OwnedBy(expenses,
                                                    calling[b].target))]]
          /\ last' = AdminStep(IF r.raised THEN "delete_user"
                               ELSE "delete_user_delete_one",
                               b, actor, calling[b].target, calling[b].arg,
                               IF r.raised THEN "raised"
                               ELSE IF r.found THEN "deleted" ELSE "absent",
                               0, <<>>, TRUE)
    /\ logged' = <<>>
    /\ UNCHANGED <<dupes, store, expenses, url, cookie, session, pending,
                   issuedTo, dead, sessTok>>

\* the rest of delete_user: delete_many, the messages, the audit entry
DeleteUserCascade(b, A) ==
    /\ calling[b].op = "delete_user_cascade"
    /\ \E auditUp \in A :
       \E actor \in {session[b].username} :
       \E r \in {delete_user_cascade(expenses, actor, calling[b].target,
                                     calling[b].arg, calling[b].found,
                                     auditUp)} :
          /\ expenses' = r.expenses
          /\ logged' = r.logged
          /\ last' = AdminStep("delete_user", b, actor, calling[b].target,
                               calling[b].arg,
                               IF calling[b].found THEN "deleted"
                               ELSE "absent",
                               r.n, r.msgs, auditUp)
    /\ calling' = [calling EXCEPT ![b] = Idle]
    /\ UNCHANGED <<dupes, users, store, url, cookie, session, pending,
                   issuedTo, dead, sessTok>>

\* the Delete All Expenses button, confirmed
DeleteAllExpenses(b, A) ==
    /\ AdminGate(session[b])
    /\ calling[b] = Idle
    /\ \/ RunStopped(b, "delete_all_expenses")
       \/ /\ AdminRun(b)
          /\ \E auditUp \in A :
              LET actor == session[b].username
                  r == delete_all_expenses(expenses, actor, auditUp)
              IN /\ expenses' = r.expenses
                 /\ logged' = r.logged
                 /\ last' = AdminStep("delete_all_expenses", b, actor, None, None,
                                      None, r.n, r.msgs, auditUp)
          /\ UNCHANGED <<dupes, users, url, cookie, session, issuedTo, dead, sessTok,
                         calling>>

\* the next row of the Delete Selected loop: rows are in the order of the
\* table, which is the order of insertion
FirstId(ids) == CHOOSE i \in ids : \A k \in ids : i <= k

\* the Delete Selected Expenses button, confirmed, with some rows ticked: the
\* script has read the visible expenses and is about to enter its loop
DeleteSelectedSelect(b) ==
    /\ AdminGate(session[b])
    /\ calling[b] = Idle
    /\ \/ RunStopped(b, "delete_selected_select")
       \/ /\ AdminRun(b)
          /\ \E ids \in SUBSET {e.id : e \in expenses} \ {{}} :
              /\ calling' = [calling EXCEPT ![b] =
                    [op |-> "delete_selected", todo |-> ids,
                     deleted_ids |-> {}, not_found |-> {}]]
              /\ last' = AdminStep("delete_selected_select", b,
                                   session[b].username, None, ids, None, 0,
                                   <<>>, TRUE)
          /\ logged' = <<>>
          /\ UNCHANGED <<dupes, users, expenses, url, cookie, session, issuedTo,
                         dead, sessTok>>

\* one delete_one of the loop; after the last one, the audit entry and the
\* message
DeleteSelectedDeleteOne(b, A) ==
    /\ calling[b].op = "delete_selected"
    /\ \E auditUp \in A :
       \E actor \in {session[b].username}, did \in {FirstId(calling[b].todo)} :
       \E r \in {collection_delete_one(expenses, did)} :
       \E deleted_ids \in {IF r.deleted_count > 0
                           THEN calling[b].deleted_ids \cup {did}
                           ELSE calling[b].deleted_ids},
          not_found \in {IF r.deleted_count = 0
                         THEN calling[b].not_found \cup {did}
                         ELSE calling[b].not_found} :
          /\ expenses' = r.expenses
          /\ IF calling[b].todo = {did}
             THEN \E f \in {delete_selected_report(actor, deleted_ids,
                                                   not_found, auditUp)} :
                     /\ calling' = [calling EXCEPT ![b] = Idle]
                     /\ logged' = f.logged
                     /\ last' = AdminStep("delete_selected_expenses", b, actor,
                                          None, deleted_ids \cup not_found,
                                          None, Cardinality(deleted_ids),
                                          f.msgs, auditUp)
             ELSE /\ calling' = [calling EXCEPT ![b] =
                        [op |-> "delete_selected",
                         todo |-> calling[b].todo \ {did},
                         deleted_ids |-> deleted_ids,
                         not_found |-> not_found]]
                  /\ logged' = <<>>
                  /\ last' = AdminStep("delete_selected_delete_one", b, actor,
                                       None, did, None, r.deleted_count, <<>>,
                                       TRUE)
    /\ UNCHANGED <<dupes, users, store, url, cookie, session, pending,
                   issuedTo, dead, sessTok>>

\* login, logout and the admin controls of the browsers B, with Redis
\* reachable; a browser whose script is inside an admin call does nothing else
NextAdminOf(B, A) ==
    \/ \E b \in B : calling[b] = Idle /\ Login(b, A) /\ last'.up
    \/ \E b \in B : calling[b] = Idle /\ Logout(b, A) /\ last'.up
    \/ \E b \in B : CreateUser(b, A) /\ last'.up
    \/ \E b \in B : ResetPasswordSelect(b) /\ last'.up
    \/ \E b \in B : ResetPasswordMissing(b)
    \/ \E b \in B : ResetPasswordCall(b, A)
    \/ \E b \in B : DeleteUserSelect(b) /\ last'.up
    \/ \E b \in B : DeleteUserDeleteOne(b)
    \/ \E b \in B : DeleteUserCascade(b, A)
    \/ \E b \in B : DeleteAllExpenses(b, A) /\ last'.up
    \/ \E b \in B : DeleteSelectedSelect(b) /\ last'.up
    \/ \E b \in B : DeleteSelectedDeleteOne(b, A)

\* one browser, whose sessions follow one another; the audit insert may fail
NextAdmin == NextAdminOf({"b1"}, BOOLEAN)
SpecAdmin == InitAdmin /\ [][NextAdmin]_vars

\* two browsers whose admin sessions select and call concurrently
NextRace ==
    \/ \E b \in Browsers : calling[b] = Idle /\ Login(b, {TRUE}) /\ last'.up
    \/ \E b \in Browsers : ResetPasswordSelect(b) /\ last'.up
    \/ \E b \in Browsers : ResetPasswordMissing(b)
    \/ \E b \in Browsers : ResetPasswordCall(b, {TRUE})
    \/ \E b \in Browsers : DeleteUserSelect(b) /\ last'.up
    \/ \E b \in Browsers : DeleteUserDeleteOne(b)
    \/ \E b \in Browsers : DeleteUserCascade(b, {TRUE})
SpecRace == InitAdmin /\ [][NextRace]_vars

(***************************************************************************)
(* create_user and ensure_superadmin with their two store calls as two     *)
(* steps.  ensure_superadmin runs at the top of every script run; where    *)
(* the admin of st.secrets has a record it finds it and does nothing, so   *)
(* the handlers above leave it out.                                        *)
(***************************************************************************)
\* the database of a new deployment, before the first script run
InitCreate ==
    /\ users = [u \in {} |-> None]
    /\ dupes = <<>>
    /\ store = EmptyStore
    /\ expenses = {}
    /\ url = [b \in Browsers |-> None]
    /\ cookie = [b \in Browsers |-> NoCookie]
    /\ session = [b \in Browsers |-> defaults]
    /\ pending = [b \in Browsers |-> <<>>]
    /\ issuedTo = EmptyStore
    /\ dead = {}
    /\ sessTok = [b \in Browsers |-> None]
    /\ logged = <<>>
    /\ calling = [b \in Browsers |-> Idle]
    /\ last = Step("init", None, None, None, None, TRUE, None, NoPre)

\* a script run of browser b starts: it stops at the ping, or ensure_superadmin
\* finds no record of the admin of st.secrets and is about to insert one
EnsureSuperadminFind(b) ==
    /\ calling[b] = Idle
    /\ ensure_superadmin_will_insert(users)
    /\ \/ RunStopped(b, "create_superadmin_find")
       \/ /\ calling' = [calling EXCEPT ![b] =
                [op |-> "create_superadmin", target |-> BootstrapAdmin,
                 arg |-> BootstrapPassword, role |-> "admin"]]
          /\ logged' = <<>>
          /\ last' = AdminStep("create_superadmin_find", b, "system", BootstrapAdmin,
                               BootstrapPassword, None, 0, <<>>, TRUE)
          /\ UNCHANGED <<users, dupes, store, expenses, url, cookie, session,
                         pending, issuedTo, dead, sessTok>>

\* ensure_superadmin inserts and logs, and the run goes on to show_app
EnsureSuperadminInsert(b, A) ==
    /\ calling[b].op = "create_superadmin"
    /\ \E auditUp \in A :
       \E r \in {users_col_insert_one(users, dupes, calling[b].target,
                                      calling[b].arg, calling[b].role)} :
       \E s0 \in {Aged(store)}, q \in {url[b]} :
       \E v \in {show_app(session[b], q, s0, r.users, TRUE, auditUp)} :
          /\ users' = r.users
          /\ dupes' = r.dupes
          /\ store' = s0
          /\ session' = [session EXCEPT ![b] = v.session]
          /\ pending' = [pending EXCEPT ![b] = v.scripts]
          /\ sessTok' = [sessTok EXCEPT ![b] = IF v.restored THEN q ELSE @]
          /\ logged' = log_action("create_superadmin", "system",
                                  calling[b].target, auditUp) \o v.logged
          /\ last' = AdminStep("create_superadmin", b, "system",
                               calling[b].target, calling[b].arg, None, 0,
                               <<>>, auditUp)
    /\ calling' = [calling EXCEPT ![b] = Idle]
    /\ UNCHANGED <<expenses, url, cookie, issuedTo, dead>>

\* the Create User button: create_user returns at one of its checks, or has
\* found no record of the name and is about to insert one
CreateUserFind(b) ==
    /\ AdminGate(session[b])
    /\ calling[b] = Idle
    /\ \/ RunStopped(b, "create_user_find")
       \/ /\ AdminRun(b)
          /\ \E username \in CreateUserInputs, password \in AdminPwdInputs,
                role \in Roles :
              \E actor \in {session[b].username} :
              IF create_user_will_insert(users, username, password)
              THEN /\ calling' = [calling EXCEPT ![b] =
                         [op |-> "create_user", target |-> Strip(username),
                          arg |-> password, role |-> role]]
                   /\ last' = AdminStep("create_user_find", b, actor,
                                        Strip(username), password, None, 0, <<>>,
                                        TRUE)
              ELSE /\ calling' = calling
                   /\ last' = AdminStep("create_user", b, actor, Strip(username),
                                        password, None, 0,
                                        create_user(users, actor, username, password,
                                                    role, TRUE).msgs, TRUE)
          /\ logged' = <<>>
          /\ UNCHANGED <<users, dupes, expenses, url, cookie, session, issuedTo,
                         dead, sessTok>>

\* create_user inserts, logs and reports success
CreateUserInsert(b, A) ==
    /\ calling[b].op = "create_user"
    /\ \E auditUp \in A :
       \E actor \in {session[b].username} :
       \E r \in {users_col_insert_one(users, dupes, calling[b].target,
                                      calling[b].arg, calling[b].role)} :
          /\ users' = r.users
          /\ dupes' = r.dupes
          /\ logged' = log_action("create_user", actor, calling[b].target,
                                  auditUp)
          /\ last' = AdminStep("create_user", b, actor, calling[b].target,
                               calling[b].arg, "inserted", 0,
                               AfterLog(auditUp,
                                        Msg("success", "User created.", 0)),
                               auditUp)
    /\ calling' = [calling EXCEPT ![b] = Idle]
    /\ UNCHANGED <<store, expenses, url, cookie, session, pending, issuedTo,
                   dead, sessTok>>

\* two browsers on a new deployment: their script runs seed the admin, they
\* log in and create users concurrently
NextCreate ==
    \/ \E b \in Browsers : EnsureSuperadminFind(b) /\ last'.up
    \/ \E b \in Browsers : EnsureSuperadminInsert(b, {TRUE})
    \/ \E b \in Browsers : /\ calling[b] = Idle
                           /\ ~ensure_superadmin_will_insert(users)
                           /\ Login(b, {TRUE})
                           /\ last'.up
    \/ \E b \in Browsers : CreateUserFind(b) /\ last'.up
    \/ \E b \in Browsers : CreateUserInsert(b, {TRUE})
SpecCreate == InitCreate /\ [][NextCreate]_vars

\* two browsers whose admin sessions reset passwords and delete users and
\* expenses concurrently, each store call of a handler a step of its own
NextAudit ==
    \/ \E b \in Browsers : calling[b] = Idle /\ Login(b, {TRUE}) /\ last'.up
    \/ \E b \in Browsers : ResetPasswordSelect(b) /\ last'.up
    \/ \E b \in Browsers : ResetPasswordMissing(b)
    \/ \E b \in Browsers : ResetPasswordCall(b, {TRUE})
    \/ \E b \in Browsers : DeleteUserSelect(b) /\ last'.up
    \/ \E b \in Browsers : DeleteUserDeleteOne(b)
    \/ \E b \in Browsers : DeleteUserCascade(b, {TRUE})
    \/ \E b \in Browsers : DeleteAllExpenses(b, {TRUE}) /\ last'.up
    \/ \E b \in Browsers : DeleteSelectedSelect(b) /\ last'.up
    \/ \E b \in Browsers : DeleteSelectedDeleteOne(b, {TRUE})
SpecAudit == InitAdmin /\ [][NextAudit]_vars

\* two browsers: sessions log in and reload their page while an admin session
\* deletes users
NextRole ==
    \/ \E b \in Browsers : calling[b] = Idle /\ Login(b, {TRUE}) /\ last'.up
    \/ \E b \in Browsers : calling[b] = Idle /\ Navigate(b, {TRUE}) /\ last'.up
    \/ \E b \in Browsers : DeleteUserSelect(b) /\ last'.up
    \/ \E b \in Browsers : DeleteUserDeleteOne(b)
    \/ \E b \in Browsers : DeleteUserCascade(b, {TRUE})
SpecRole == InitAdmin /\ [][NextRole]_vars

(***************************************************************************)
(* Claims                                                                  *)
(***************************************************************************)
Anonymous(sess) ==
    /\ ~sess.authenticated
    /\ sess.username = None
    /\ ~sess.is_admin

\* C1: a login with correct credentials whose Redis write fails (no token is
\* stored) leaves the session Anonymous.
C1_FailedIssueStaysAnonymous ==
    (last.op = "login" /\ last.res = "nostore") => Anonymous(session[last.b])

\* C2: a token that was deleted from Redis or has expired there never again
\* resolves to a username: no lookup of it returns one, no session is restored
\* from it, and a refresh of it does not recreate it.
C2_DeadTokenNeverResolves ==
    /\ \A t \in dead : get_username_from_token(store, t, TRUE) = None
    /\ last.res = "restored" => last.q \notin dead
    /\ (last.op = "save" /\ last.q \in dead) => last.res # "refreshed"

\* C2 witness: Save Expense refreshed a token that had expired or been
\* deleted, and the token is still absent.
C2_Witness ==
    /\ last.op = "save" /\ last.up /\ last.q \in dead
    /\ last.q \notin DOMAIN store

\* C3: after logout of an authenticated session (Redis answering), the token
\* the session was established with is absent from Redis.
C3_LogoutRevokesSessionToken ==
    (last.op = "logout" /\ last.tok # None /\ last.up)
        => last.tok \notin DOMAIN store

\* C4: after any run of show_app for a session whose token has expired or been
\* deleted, the session is not authenticated.
C4_DeadTokenMeansAnonymous ==
    \A b \in Browsers :
        (/\ last.op \in {"load", "rerun", "save"} /\ last.b = b
         /\ sessTok[b] # None
         /\ RedisGet(store, sessTok[b]) = None)
            => ~session[b].authenticated

\* C5: a login with an unknown username and a login with a known username and
\* a wrong password (non-empty inputs) give the same error message and the same
\* resulting state.
C5_GenericLoginFailure ==
    /\ \A b \in Browsers, up \in RedisUp :
       \A ru1 \in {ru \in LoginUserInputs :
                      Strip(ru) # "" /\ Strip(ru) \notin DOMAIN users},
          ru2 \in {ru \in LoginUserInputs : Strip(ru) \in DOMAIN users},
          p1, p2 \in LoginPwdInputs \ {""} :
          users[Strip(ru2)].password_hash # hash_password(p2)
          => \A r1 \in {login(session[b], store, issuedTo, users, ru1, p1, up, TRUE)},
                r2 \in {login(session[b], store, issuedTo, users, ru2, p2, up, TRUE)} :
                /\ r1 = r2
                /\ r1.session.login_error = r2.session.login_error
                /\ r1.session = [session[b] EXCEPT !.login_error = r1.session.login_error]
                /\ r1.store = store /\ r1.query = None /\ r1.logged = <<>>
    /\ (last.op = "login" /\ last.res = "invalid")
          => session[last.b].login_error = "Invalid username or password."

\* C5 witness: a login was refused for its credentials.
C5_Witness ==
    /\ last.op = "login" /\ last.res = "invalid"
    /\ ~session[last.b].authenticated
    /\ session[last.b].login_error = "Invalid username or password."

\* C6: a token resolves only to the username it was issued for, or to nothing;
\* for tokens t1 # t2 issued to different users, resolving t1 never gives the
\* username bound to t2.
C6_NoCrossContamination ==
    /\ \A t1 \in DOMAIN issuedTo :
          /\ get_username_from_token(store, t1, TRUE) \in {None, issuedTo[t1]}
          /\ \A t2 \in DOMAIN issuedTo :
                (t1 # t2 /\ issuedTo[t1] # issuedTo[t2])
                    => get_username_from_token(store, t1, TRUE) # issuedTo[t2]
    /\ last.res = "restored" => session[last.b].username = issuedTo[last.q]

\* C6 witness: a session was restored from one token while a token of another
\* user is live in Redis.
C6_Witness ==
    /\ last.res = "restored"
    /\ \E t2 \in DOMAIN store : t2 # last.q /\ store[t2].user # issuedTo[last.q]

\* C7: revoking a token twice leaves the state revoking it once leaves: the
\* token is absent after both calls, the second call deletes nothing and
\* returns normally, also for a token that was not there.
C7_RevokeIdempotent ==
    /\ \A t \in Tokens :
          LET once == delete_token(store, t, TRUE)
              twice == delete_token(once.store, t, TRUE)
              c1 == clear_url_token_and_redis(store, t, TRUE)
              c2 == clear_url_token_and_redis(c1.store, t, TRUE)
          IN /\ t \notin DOMAIN once.store
             /\ twice.store = once.store
             /\ twice.ret = FALSE
             /\ c1.store = once.store /\ c2.store = c1.store
    /\ (last.op = "logout" /\ last.q # None /\ last.up)
          => (last.q \notin DOMAIN store /\ Anonymous(session[last.b]))

\* C7 witness: logout revoked a token that was already absent from Redis.
C7_Witness ==
    /\ last.op = "logout" /\ last.res = "absent"
    /\ last.q \notin DOMAIN store

\* C8: a refresh of a token present in Redis leaves a remaining TTL that is at
\* least, and strictly more than, the TTL remaining when it was called, and
\* leaves the bound username unchanged.
C8_RefreshExtendsTtl ==
    (last.op = "save" /\ last.res = "refreshed")
        => /\ last.q \in DOMAIN store
           /\ Remaining(store[last.q]) >= last.pre.rem
           /\ Remaining(store[last.q]) > last.pre.rem
           /\ store[last.q].ttl = TtlSeconds
           /\ store[last.q].user = last.pre.user

\* C8 witness: a refresh of a token part of whose TTL had run down.
C8_Witness ==
    /\ last.op = "save" /\ last.res = "refreshed"
    /\ last.pre.rem + 1 < Remaining(store[last.q])

\* C9: a page load with a live token in the URL resolves to the token's user;
\* a page load with the token only in the cookie hands the client the reader
\* snippet, whose navigation carries the cookie's token and resolves to the
\* same user; a page load with neither resolves to no user, without an error.
\* The first two parts are about runs that get past the Redis connection
\* check; a run that stops there resolves to no user.
\* The reader does nothing only when the browser holds no session_token
\* cookie.
C9_ResolutionAcrossCarriers ==
    \A b \in Browsers :
        /\ (/\ last.op = "load" /\ last.b = b /\ last.q # None /\ last.up
            /\ RedisGet(store, last.q) # None)
              => /\ session[b].authenticated
                 /\ session[b].username = issuedTo[last.q]
        /\ (last.op = "load" /\ last.b = b /\ last.q = None)
              => /\ Anonymous(session[b])
                 /\ session[b].login_error = None
                 /\ ~last.stopped => pending[b] = <<"reader">>
        /\ (last.op = "load" /\ last.b = b /\ last.stopped)
              => /\ Anonymous(session[b])
                 /\ pending[b] = <<>>
        /\ (last.op = "load" /\ last.b = b /\ last.via = "reader")
              => /\ last.q # None
                 /\ last.q = cookie[b].tok
        /\ (last.op = "reader" /\ last.b = b)
              => /\ Anonymous(session[b])
                 /\ url[b] = None /\ cookie[b].tok = None

\* C10: a token in the visible URL always has the setter snippet waiting to
\* run, and once it has run the token is in the cookie and not in the URL.
C10_UrlIsOneShotTransport ==
    \A b \in Browsers :
        /\ url[b] # None => (pending[b] # <<>> /\ Head(pending[b]) = "setter")
        /\ pending[b] = <<>> => url[b] = None
        /\ (last.op = "setter" /\ last.b = b)
              => /\ last.q # None
                 /\ cookie[b].tok = last.q
                 /\ url[b] = None

\* C10 witness: after a successful login the setter has run: the session's
\* token is in the cookie and the URL is clean.
C10_Witness ==
    /\ last.op = "setter"
    /\ session[last.b].authenticated
    /\ sessTok[last.b] # None
    /\ cookie[last.b].tok = sessTok[last.b]
    /\ url[last.b] = None


\* C18: after logout the session state is Anonymous, whether the Redis delete
\* succeeded, failed, found the key absent or was never called (no token in
\* the URL).
C18_LogoutAlwaysAnonymous ==
    last.op = "logout" => Anonymous(session[last.b])

\* C18 witness: a logout whose Redis delete raised, and the session is
\* Anonymous.
C18_Witness ==
    /\ last.op = "logout" /\ last.res = "failed"
    /\ Anonymous(session[last.b])

\* C20: after a Save Expense of an authenticated session whose token is live
\* and with Redis reachable, the token has the full TTL again, whether the
\* token is still in the URL or only in the cookie.
C20_SaveRefreshesSessionToken ==
    (/\ last.op = "save" /\ last.up
     /\ sessTok[last.b] \in DOMAIN store)
        => Remaining(store[sessTok[last.b]]) = 2 * TtlSeconds
\* the operations the claim on audit completeness names: the op of their step
AuditedOps ==
    {"login", "logout", "create_user", "reset_password", "delete_user",
     "delete_all_expenses"}

\* C11: every call of login, logout, create_user, reset_password, delete_user
\* and delete_all_expenses, made while the audit store accepts writes, appends
\* exactly one audit entry whose action is the operation's name.
C11_EveryCallLogsOnce ==
    (last.op \in AuditedOps /\ last.audit)
        => Cardinality({i \in DOMAIN logged : logged[i].action = last.op}) = 1

\* C12: an audit entry tagged create_user, reset_password, delete_user,
\* delete_all_expenses or delete_selected_expenses is appended only by an
\* operation whose mutation changed the store: it inserted the target's
\* record, replaced the target's hash (the users collection differs after
\* the update), deleted the target's record (the call's delete_one, made in
\* its earlier step, found it), deleted every expense of a non-empty
\* collection, deleted at least one expense in its loop.
C12_TruthfulAudit ==
    [][\A i \in DOMAIN logged' :
        LET e == logged'[i]
        IN /\ e.action = "create_user" =>
                /\ e.target \notin DOMAIN users
                /\ e.target \in DOMAIN users'
           /\ e.action = "reset_password" =>
                /\ e.target \in DOMAIN users
                /\ e.target \in DOMAIN users'
                /\ users'[e.target].password_hash = hash_password(last'.arg)
                /\ users' # users
           /\ e.action = "delete_user" =>
                /\ calling[last'.b].op = "delete_user_cascade"
                /\ calling[last'.b].target = e.target
                /\ calling[last'.b].found
                /\ e.target \notin DOMAIN users'
           /\ e.action = "delete_all_expenses" =>
                /\ expenses # {}
                /\ expenses' = {}
           /\ e.action = "delete_selected_expenses" =>
                /\ calling[last'.b].op = "delete_selected"
                /\ expenses' \subseteq expenses
                /\ \/ calling[last'.b].deleted_ids # {}
                   \/ expenses' # expenses]_vars

\* C13: delete_user(target, delete_expenses=True) on a user who exists when
\* the call starts and then owns n expenses deletes the user's record and
\* exactly those n expenses and reports n; the same call made when the user
\* and the expenses are already gone deletes nothing and reports that no user
\* record was found.  The call ends in the step whose op is delete_user: the
\* one that raised, or the one after its delete_one.
C13_CascadeDeleteAccounting ==
    [][(last'.op = "delete_user" /\ last'.arg = TRUE) =>
        \A t \in {last'.target} :
        \A started \in {IF last'.res = "raised"
                        THEN [found |-> t \in DOMAIN users,
                              owned |-> Cardinality(OwnedBy(expenses, t))]
                        ELSE [found |-> calling[last'.b].found,
                              owned |-> calling[last'.b].owned]} :
           /\ started.found =>
                /\ t \notin DOMAIN users'
                /\ OwnedBy(expenses', t) = {}
                /\ expenses \ OwnedBy(expenses, t) = expenses'
                /\ last'.n = started.owned
                /\ last'.msgs # <<>>
                /\ \A i \in DOMAIN last'.msgs :
                      last'.msgs[i].n = started.owned
           /\ (~started.found /\ started.owned = 0) =>
                /\ users' = users
                /\ expenses' = expenses
                /\ last'.n = 0
                /\ last'.msgs = <<Msg("warning", "No user record found.", 0)>>]_vars

\* the steps of the admin operations that mutate
AdminOps ==
    {"create_user", "reset_password", "delete_user_delete_one", "delete_user",
     "delete_all_expenses", "delete_selected_delete_one",
     "delete_selected_expenses"}

\* C14: a step that changes the users collection or removes an expense is an
\* admin operation of a session that is, when it runs, authenticated with
\* is_admin set; no anonymous or standard-user session makes such a step.
C14_RoleGating ==
    [][(users' # users \/ ~(expenses \subseteq expenses')) =>
        /\ last'.op \in AdminOps
        /\ session[last'.b].authenticated
        /\ session[last'.b].is_admin
        /\ session[last'.b].username = last'.actor]_vars

\* C14 witness: an admin session deleted a user, and the session is still the
\* admin's.
C14_Witness ==
    /\ last.op = "delete_user" /\ last.res = "deleted"
    /\ session[last.b].is_admin
    /\ last.target \notin DOMAIN users

\* C15: no step removes the bootstrap admin's record or the record of the
\* admin whose session makes the step, so the bootstrap admin's record
\* always exists.
C15_NoSelfOrBootstrapDelete ==
    [][/\ BootstrapAdmin \in DOMAIN users'
       /\ \A u \in DOMAIN users \ DOMAIN users' :
            /\ u # BootstrapAdmin
            /\ u # session[last'.b].username]_vars

\* C15 witness: an admin other than the bootstrap admin deleted a user; both
\* admins' records are still there.
C15_Witness ==
    /\ last.op = "delete_user" /\ last.res = "deleted"
    /\ last.actor # BootstrapAdmin
    /\ last.actor \in DOMAIN users
    /\ BootstrapAdmin \in DOMAIN users

\* C16: create_user with a username (stripped) that is already present leaves
\* the users collection as it was: the record's hash, role and creation time
\* are unchanged and no record is added; given a password it reports "User
\* already exists."
C16_CreateExistingIsNoOverwrite ==
    [][(last'.op = "create_user" /\ last'.target \in DOMAIN users) =>
        /\ users' = users
        /\ last'.arg # "" =>
             last'.msgs = <<Msg("error", "User already exists.", 0)>>]_vars

\* C16 witness: create_user was called for a user who exists, with a
\* password; the record is the one made before.
C16_Witness ==
    /\ last.op = "create_user" /\ last.arg # ""
    /\ last.msgs = <<Msg("error", "User already exists.", 0)>>
    /\ last.target \in DOMAIN users
    /\ users[last.target].created_at = BootTime
    /\ users[last.target].password_hash # hash_password(last.arg)

\* what an operation returns, but for the audit entries
SansLog(r) == [f \in DOMAIN r \ {"logged"} |-> r[f]]

\* the same effect with the audit insert failing as with it succeeding, and
\* no entry when it fails
SameButLog(failing, succeeding) ==
    /\ SansLog(failing) = SansLog(succeeding)
    /\ failing.logged = <<>>

\* C17: in every reachable state, each operation that writes an audit entry
\* (restore, login, logout, create_user, reset_user_password, delete_user,
\* Delete All, Delete Selected), run with the audit insert failing, returns
\* the session state, Redis store, users and expenses it returns with the
\* insert succeeding, and the same messages; only the entry is missing.
C17_AuditFailureKeepsEffect ==
    /\ last.op \in AdminOps \cup AuditedOps =>
          (~last.audit => logged = <<>>)
    /\ \A b \in Browsers :
        LET sess == session[b]
            actor == sess.username
        IN /\ \A up \in RedisUp :
                /\ SameButLog(show_app(sess, url[b], store, users, up, FALSE),
                              show_app(sess, url[b], store, users, up, TRUE))
                /\ SameButLog(logout(sess, store, url[b], up, FALSE),
                              logout(sess, store, url[b], up, TRUE))
                /\ Cardinality(DOMAIN issuedTo) < MaxTokens =>
                     \A rawUser \in LoginUserInputs, pwd \in LoginPwdInputs :
                        SameButLog(login(sess, store, issuedTo, users, rawUser,
                                         pwd, up, FALSE),
                                   login(sess, store, issuedTo, users, rawUser,
                                         pwd, up, TRUE))
           /\ \A username \in CreateUserInputs, password \in AdminPwdInputs,
                 role \in Roles :
                SameButLog(create_user(users, actor, username, password, role, FALSE),
                           create_user(users, actor, username, password, role, TRUE))
           /\ \A target \in DOMAIN users \cup {"bob"} :
                /\ \A new_pass \in AdminPwdInputs :
                     SameButLog(
                       reset_user_password(users, actor, target, new_pass, FALSE),
                       reset_user_password(users, actor, target, new_pass, TRUE))
                /\ \A c \in BOOLEAN, tracing \in TracingOutcomes :
                     SameButLog(
                       delete_user(users, expenses, actor, target, c, FALSE,
                                   tracing),
                       delete_user(users, expenses, actor, target, c, TRUE,
                                   tracing))
           /\ SameButLog(delete_all_expenses(expenses, actor, FALSE),
                         delete_all_expenses(expenses, actor, TRUE))
           /\ \A ids \in SUBSET {e.id : e \in SeedExpenses} :
                SameButLog(delete_selected_expenses(expenses, actor, ids, FALSE),
                           delete_selected_expenses(expenses, actor, ids, TRUE))

\* C17 witness: create_user ran with the audit insert failing: the user was
\* created and reported, and no entry was written.
C17_Witness ==
    /\ last.op = "create_user" /\ ~last.audit
    /\ last.target \in DOMAIN users
    /\ users[last.target].created_at = now_utc
    /\ last.msgs = <<Msg("success", "User created.", 0)>>
    /\ logged = <<>>

\* C19: a successful login yields a token no earlier login was given, bound
\* to its user, and leaves every stored token resolving as before; when a
\* token leaves the store (logout deletes it, or its TTL runs out), every
\* other token of the same user whose own TTL has not run out still resolves
\* to that user.
C19_SessionsOfOneUserCoexist ==
    [][/\ (last'.op = "login" /\ last'.res = "ok") =>
            /\ last'.tok \notin DOMAIN issuedTo
            /\ get_username_from_token(store', last'.tok, TRUE)
                  = issuedTo'[last'.tok]
            /\ \A t \in DOMAIN store :
                  get_username_from_token(store', t, TRUE) = issuedTo[t]
       /\ \A t \in DOMAIN store \ DOMAIN store' :
            \A t2 \in DOMAIN store \ {t} :
                (/\ issuedTo[t2] = issuedTo[t]
                 /\ ~(last'.op = "tick" /\ store[t2].ttl <= TickSeconds))
                    => get_username_from_token(store', t2, TRUE) = issuedTo[t2]
      ]_vars

\* C19 witness: two browsers hold sessions of one user under two tokens; one
\* has logged out and its token is deleted, the other token still resolves
\* to the user.
C19_Witness ==
    /\ last.op = "logout" /\ last.res = "deleted"
    /\ last.q \notin DOMAIN store
    /\ \E b \in Browsers :
        /\ b # last.b
        /\ session[b].authenticated
        /\ sessTok[b] \in DOMAIN store
        /\ sessTok[b] # last.q
        /\ issuedTo[sessTok[b]] = issuedTo[last.q]
        /\ get_username_from_token(store, sessTok[b], TRUE) = session[b].username

\* C21: after any interleaving of create_user calls of concurrent admin
\* sessions and of the seeding step, users_col holds at most one record per
\* username.
C21_UsernameIsUniqueKey ==
    \A name \in DOMAIN users \cup {dupes[i].username : i \in DOMAIN dupes} :
        RecordsOf(users, dupes, name) <= 1

\* C22: a session is admin only when it is authenticated with a username, and
\* it becomes admin only in a login or a session restore of its own that read
\* a record of that username with role admin; a restore for a username that
\* has no record gives an authenticated session that is not admin.
C22_AdminOnlyFromRecord ==
    [][\A b \in Browsers :
        /\ session'[b].is_admin
            => session'[b].authenticated /\ session'[b].username # None
        /\ ( /\ session'[b].is_admin
             /\ \/ ~session[b].is_admin
                \/ session'[b].username # session[b].username
                \/ last'.b = b /\ last'.op = "load" )
            => /\ last'.b = b
               /\ \/ last'.op = "login" /\ last'.res \in {"ok", "nostore"}
                  \/ last'.op \in {"load", "rerun"} /\ last'.res = "restored"
                  \* the run after a failed login restored from the URL token
                  \/ /\ last'.op = "login"
                     /\ last'.q # None
                     /\ sessTok'[b] = last'.q
                     /\ session'[b].username = issuedTo[last'.q]
               /\ session'[b].username \in DOMAIN users
               /\ users[session'[b].username].role = "admin"
        /\ ( /\ last'.b = b
             /\ last'.op \in {"load", "rerun"}
             /\ last'.res = "restored"
             /\ issuedTo[last'.q] \notin DOMAIN users )
            => /\ session'[b].authenticated
               /\ session'[b].username = issuedTo[last'.q]
               /\ ~session'[b].is_admin
      ]_vars

\* C22 witness: a page load restored the session of a user whose record an
\* admin session, still admin, has deleted.
C22_Witness ==
    /\ last.op = "load" /\ last.res = "restored"
    /\ issuedTo[last.q] \notin DOMAIN users
    /\ session[last.b].authenticated
    /\ session[last.b].username = issuedTo[last.q]
    /\ ~session[last.b].is_admin
    /\ \E b \in Browsers :
        /\ session[b].is_admin
        /\ session[b].username \in DOMAIN users
        /\ users[session[b].username].role = "admin"
====
